---- MODULE Spec2Model ----
(***************************************************************************)
(* A model of bufplugin-go's test-support compile pipeline                 *)
(* (ProtoFileSpec.ToFileDescriptors and compile, src/info/spec.go lines    *)
(* 313-489) and of info.InfoForSpec / info.ValidateSpec                    *)
(* (src/unnamed/part_000 lines 43-49, src/info/spec.go lines 65-102).      *)
(*                                                                         *)
(* A path is a sequence of tokens: a separator token or a path element     *)
(* ("w.proto", ".", "..", "src").  The protocompile compiler is a          *)
(* collaborator of the code: it is modelled by what it hands back to       *)
(* compile(): the linked files, in the order of the names it was given,    *)
(* the diagnostics it passes to the two Reporter callbacks, and the error  *)
(* its handler ends with.                                                  *)
(***************************************************************************)
EXTENDS Integers, Sequences, FiniteSets, TLC

\* ------------------------------------------------------------------ bounds

\* Most import statements in one file.
MaxDeps == 2
\* Most import statements in all files together where the import graph varies.
MaxEdges == 4
\* Longest FilePaths list where the import graph or the spelling varies.
MaxFilePaths == 2
\* Longest FilePaths list where the order of the requests varies.
MaxRequested == 3
\* Most import statements in all files together where requests or diagnostics vary.
MaxSmallEdges == 2
\* Most import statements in all files together where the spelling of paths varies.
MaxPathEdges == 1
\* Most diagnostics the compiler reports in one compile.
MaxDiags == 2

\* The .proto files under the import root, leaf first: a file imports only
\* files named before it, so every import graph drawn from them is acyclic.
FileNames == <<"w.proto", "x.proto", "y.proto", "z.proto">>

\* A path no import root holds (and no well-known import).
AbsentName == "absent.proto"

Range(s) == {s[i] : i \in DOMAIN s}

SeqsUpTo(S, n) == UNION {[1..k -> S] : k \in 0..n}

\* ------------------------------------------------------------------- paths

\* os.PathSeparator of the build (a Unix build; filepath.FromSlash and
\* filepath.ToSlash are then the identity, as computed below).
PathSeparator == "/"

\* filepath.FromSlash: every "/" becomes the separator.
FromSlash(path) == [i \in DOMAIN path |-> IF path[i] = "/" THEN PathSeparator ELSE path[i]]

\* filepath.ToSlash: every separator becomes "/".
ToSlash(path) == [i \in DOMAIN path |-> IF path[i] = PathSeparator THEN "/" ELSE path[i]]

\* The elements of a path, separators dropped.
Elements(path) == SelectSeq(path, LAMBDA t : t # PathSeparator)

IsRooted(path) == path # <<>> /\ path[1] = PathSeparator

\* One step of filepath.Clean over the elements kept so far.
CleanStep(out, e, rooted) ==
    IF e = "." THEN out
    ELSE IF e = ".."
         THEN IF out # <<>> /\ out[Len(out)] # ".." THEN SubSeq(out, 1, Len(out) - 1)
              ELSE IF rooted THEN out
              ELSE Append(out, e)
         ELSE Append(out, e)

RECURSIVE CleanElements(_, _, _)
CleanElements(elems, out, rooted) ==
    IF elems = <<>> THEN out
    ELSE CleanElements(Tail(elems), CleanStep(out, Head(elems), rooted), rooted)

RECURSIVE JoinElements(_)
JoinElements(elems) ==
    IF Len(elems) <= 1 THEN elems
    ELSE <<Head(elems), PathSeparator>> \o JoinElements(Tail(elems))

\* filepath.Clean: "." elements and empty elements dropped, "x/.." resolved.
Clean(path) ==
    LET kept == CleanElements(Elements(path), <<>>, IsRooted(path))
    IN  IF IsRooted(path) THEN <<PathSeparator>> \o JoinElements(kept)
        ELSE IF kept = <<>> THEN <<".">>
        ELSE JoinElements(kept)

fromSlashPaths(paths) == [i \in DOMAIN paths |-> Clean(FromSlash(paths[i]))]

\* ------------------------------------------------------------------ values

NoPath == <<>>

\* An error value (Go's error) or a positioned diagnostic.
Diag(severity, kind, filename, unusedImport) ==
    [severity |-> severity, kind |-> kind, filename |-> filename, unusedImport |-> unusedImport]

NoError == Diag("none", "nil", NoPath, NoPath)
ErrNoDirPaths == Diag("error", "no DirPaths specified on ProtoFileSpec", NoPath, NoPath)
ErrNoFilePaths == Diag("error", "no FilePaths specified on ProtoFileSpec", NoPath, NoPath)
\* reporter.ErrInvalidSource: what the compiler's handler ends with when errors
\* were reported and the error callback returned nil for each.
ErrInvalidSource == Diag("error", "ErrInvalidSource", NoPath, NoPath)
ErrFailedToResolve(path) == Diag("error", "errFailedToResolve", path, NoPath)

WarnNoSyntax(filename) == Diag("warning", "ErrNoSyntax", filename, NoPath)
WarnUnusedImport(filename, import) == Diag("warning", "ErrorUnusedImport", filename, import)
WarnOther(filename) == Diag("warning", "other", filename, NoPath)
ErrUnresolved(filename) == Diag("error", "unresolvedReference", filename, NoPath)

\* A ProtoFileSpec; isNil is the nil receiver of ToFileDescriptors.
ProtoFileSpec(DirPaths, FilePaths) == [isNil |-> FALSE, DirPaths |-> DirPaths, FilePaths |-> FilePaths]
NilProtoFileSpec == [isNil |-> TRUE, DirPaths |-> <<>>, FilePaths |-> <<>>]

\* The directory the .proto files are in, and a ProtoFileSpec spelling of it.
SourceDir == <<"src">>
SourceDirSpelled == <<"src", "/">>

VARIABLES
    protoFileSpec,      \* the ProtoFileSpec ToFileDescriptors is called on (isNil: p == nil)
    sources,            \* the import root's files: name -> the names it imports, in order
    diagnostics,        \* what the compiler reports for these sources, in order
    pc,                 \* where the call is
    dirPaths,           \* compile's dirPaths after fromSlashPaths
    filePaths,          \* compile's filePaths after fromSlashPaths
    toSlashFilePathMap,
    warningErrorsWithPos,
    files,              \* what compiler.Compile returned
    syntaxUnspecifiedFilePaths,
    filePathToUnusedDependencyFilePaths,
    fileDescriptors,    \* the returned descriptors
    err,                \* the returned error
    spec,               \* the info.Spec InfoForSpec is called on
    infoPc,
    info,               \* InfoForSpec's first result
    infoErr             \* InfoForSpec's second result

compileVars == <<protoFileSpec, sources, diagnostics, pc, dirPaths, filePaths,
                 toSlashFilePathMap, warningErrorsWithPos, files,
                 syntaxUnspecifiedFilePaths, filePathToUnusedDependencyFilePaths,
                 fileDescriptors, err>>
infoVars == <<spec, infoPc, info, infoErr>>
vars == <<compileVars, infoVars>>

\* ------------------------------------------------------- ProtoFileSpec

validateProtoFileSpecNoFilePaths(p) ==
    IF Len(p.DirPaths) = 0 THEN ErrNoDirPaths ELSE NoError

validateProtoFileSpec(p) ==
    IF Len(p.DirPaths) = 0 THEN ErrNoDirPaths
    ELSE IF Len(p.FilePaths) = 0 THEN ErrNoFilePaths
    ELSE NoError

\* ToFileDescriptors up to the call of compile.
ToFileDescriptors ==
    /\ pc = "ToFileDescriptors"
    /\ IF protoFileSpec.isNil
       THEN /\ pc' = "returned"
            /\ err' = NoError
       ELSE LET e == validateProtoFileSpec(protoFileSpec)
            IN  /\ err' = e
                /\ pc' = IF e # NoError THEN "returned" ELSE "compile"
    /\ UNCHANGED <<protoFileSpec, sources, diagnostics, dirPaths, filePaths,
                   toSlashFilePathMap, warningErrorsWithPos, files,
                   syntaxUnspecifiedFilePaths, filePathToUnusedDependencyFilePaths,
                   fileDescriptors>>
    /\ UNCHANGED infoVars

\* compile, lines 362-367: the paths are normalised and the requested set is keyed.
NormalizePaths ==
    /\ pc = "compile"
    /\ dirPaths' = fromSlashPaths(protoFileSpec.DirPaths)
    /\ filePaths' = fromSlashPaths(protoFileSpec.FilePaths)
    /\ toSlashFilePathMap' = {ToSlash(filePaths'[i]) : i \in DOMAIN filePaths'}
    /\ pc' = "Compile"
    /\ UNCHANGED <<protoFileSpec, sources, diagnostics, warningErrorsWithPos, files,
                   syntaxUnspecifiedFilePaths, filePathToUnusedDependencyFilePaths,
                   fileDescriptors, err>>
    /\ UNCHANGED infoVars

\* ------------------------------------------------------------ the compiler

\* filepath.Join(importPath, path) of protocompile.SourceResolver.
Join(dir, path) == Clean(dir \o <<PathSeparator>> \o path)

\* The name of the source file at a full path, "" when there is none.
SourceAt(full) ==
    IF \E n \in DOMAIN sources : full = SourceDir \o <<PathSeparator, n>>
    THEN CHOOSE n \in DOMAIN sources : full = SourceDir \o <<PathSeparator, n>>
    ELSE ""

\* SourceResolver.FindFileByPath: the first import path that holds the file.
RECURSIVE FindFileByPath(_, _)
FindFileByPath(dirs, path) ==
    IF dirs = <<>> THEN ""
    ELSE IF SourceAt(Join(Head(dirs), path)) # "" THEN SourceAt(Join(Head(dirs), path))
    ELSE FindFileByPath(Tail(dirs), path)

\* A linked file: the name it was compiled under and the source it was read from.
LinkedFile(path, source) == [path |-> path, source |-> source]

\* protoreflect.FileDescriptor.Imports: the linked files of the import statements.
Imports(file) == [k \in DOMAIN sources[file.source] |->
                    LinkedFile(<<sources[file.source][k]>>, sources[file.source][k])]

\* The error callback of the Reporter (lines 377-379).
reporterError(errorWithPos) == NoError

\* The warning callback of the Reporter (lines 380-382).
reporterWarning(collected, errorWithPos) == Append(collected, errorWithPos)

IsError(d) == d.severity = "error"
IsWarning(d) == d.severity = "warning"

\* The first requested name no import path holds, NoPath when all resolve.
FirstUnresolved(dirs, names) ==
    IF \E i \in DOMAIN names : FindFileByPath(dirs, names[i]) = ""
    THEN names[CHOOSE i \in DOMAIN names :
                 /\ FindFileByPath(dirs, names[i]) = ""
                 /\ \A j \in 1..(i - 1) : FindFileByPath(dirs, names[j]) # ""]
    ELSE NoPath

\* The error compiler.Compile returns: a name that does not resolve is returned
\* as it is; a reported error is what the error callback made of it, and
\* ErrInvalidSource when the callback returned nil.
CompilerError(dirs, names, reported) ==
    LET errors == SelectSeq(reported, IsError)
    IN  IF FirstUnresolved(dirs, names) # NoPath
        THEN ErrFailedToResolve(FirstUnresolved(dirs, names))
        ELSE IF errors = <<>> THEN NoError
        ELSE IF reporterError(errors[1]) # NoError THEN reporterError(errors[1])
        ELSE ErrInvalidSource

RECURSIVE CollectWarnings(_, _)
CollectWarnings(reported, collected) ==
    IF reported = <<>> THEN collected
    ELSE CollectWarnings(Tail(reported),
                         IF IsWarning(Head(reported))
                         THEN reporterWarning(collected, Head(reported))
                         ELSE collected)

\* A variant of the error check of lines 387-390 that goes on after an error.
compileFailedNever(e) == FALSE

\* Lines 388-390: err != nil.
compileFailed(e) == e # NoError

\* compile, lines 369-390: the compiler runs (under a context that is not
\* cancelled); an error ends the call.
Compile ==
    /\ pc = "Compile"
    /\ LET e == CompilerError(dirPaths, filePaths, diagnostics)
           resolved == FirstUnresolved(dirPaths, filePaths) = NoPath
       IN  /\ warningErrorsWithPos' =
                 IF resolved THEN CollectWarnings(diagnostics, <<>>) ELSE <<>>
           /\ IF compileFailed(e)
              THEN /\ err' = e
                   /\ files' = <<>>
                   /\ pc' = "returned"
              ELSE /\ err' = NoError
                   /\ files' = IF resolved
                               THEN [i \in DOMAIN filePaths |->
                                       LinkedFile(filePaths[i],
                                                  FindFileByPath(dirPaths, filePaths[i]))]
                               ELSE <<>>
                   /\ pc' = "classify"
    /\ UNCHANGED <<protoFileSpec, sources, diagnostics, dirPaths, filePaths,
                   toSlashFilePathMap, syntaxUnspecifiedFilePaths,
                   filePathToUnusedDependencyFilePaths, fileDescriptors>>
    /\ UNCHANGED infoVars

\* ---------------------------------------------------- classification

\* A variant of maybeAddSyntaxUnspecified without the errors.Is test.
maybeAddSyntaxUnspecifiedAny(paths, errorWithPos) == paths \cup {errorWithPos.filename}

maybeAddSyntaxUnspecified(paths, errorWithPos) ==
    IF errorWithPos.kind # "ErrNoSyntax" THEN paths
    ELSE paths \cup {errorWithPos.filename}

maybeAddUnusedDependency(byFile, errorWithPos) ==
    IF errorWithPos.kind # "ErrorUnusedImport" THEN byFile
    ELSE [p \in DOMAIN byFile \cup {errorWithPos.filename} |->
            IF p = errorWithPos.filename
            THEN (IF p \in DOMAIN byFile THEN byFile[p] ELSE {}) \cup {errorWithPos.unusedImport}
            ELSE byFile[p]]

RECURSIVE ClassifyAll(_, _)
\* The loop of lines 393-396 over the collected warnings.
ClassifyAll(warnings, maps) ==
    IF warnings = <<>> THEN maps
    ELSE ClassifyAll(Tail(warnings),
                     [syntax |-> maybeAddSyntaxUnspecified(maps.syntax, Head(warnings)),
                      unused |-> maybeAddUnusedDependency(maps.unused, Head(warnings))])

Classify ==
    /\ pc = "classify"
    /\ LET maps == ClassifyAll(warningErrorsWithPos, [syntax |-> {}, unused |-> <<>>])
       IN  /\ syntaxUnspecifiedFilePaths' = maps.syntax
           /\ filePathToUnusedDependencyFilePaths' = maps.unused
    /\ pc' = "assemble"
    /\ UNCHANGED <<protoFileSpec, sources, diagnostics, dirPaths, filePaths,
                   toSlashFilePathMap, warningErrorsWithPos, files, fileDescriptors, err>>
    /\ UNCHANGED infoVars

\* ------------------------------------------------------------ assembly

\* protoutil.ProtoFromFileDescriptor: the name and the declared dependencies.
ProtoFromFileDescriptor(file) ==
    [name |-> file.path,
     dependency |-> [k \in DOMAIN Imports(file) |-> Imports(file)[k].path]]

RECURSIVE toFileDescriptorProtoSlicePreOrder(_, _)
RECURSIVE visitImportsPreOrder(_, _, _)
\* A variant of toFileDescriptorProtoSlice that appends the file before its imports.
toFileDescriptorProtoSlicePreOrder(file, st) ==
    IF file.path \in st.soFar THEN st
    ELSE visitImportsPreOrder(Imports(file), 1,
             [soFar |-> st.soFar \cup {file.path},
              results |-> Append(st.results, ProtoFromFileDescriptor(file))])
visitImportsPreOrder(imports, i, st) ==
    IF i > Len(imports) THEN st
    ELSE visitImportsPreOrder(imports, i + 1, toFileDescriptorProtoSlicePreOrder(imports[i], st))

RECURSIVE toFileDescriptorProtoSliceNoSoFar(_, _)
RECURSIVE visitImportsNoSoFar(_, _, _)
\* A variant of toFileDescriptorProtoSlice that never looks a path up in soFar.
toFileDescriptorProtoSliceNoSoFar(file, st) ==
    LET after == visitImportsNoSoFar(Imports(file), 1,
                                     [st EXCEPT !.soFar = @ \cup {file.path}])
    IN  [after EXCEPT !.results = Append(@, ProtoFromFileDescriptor(file))]
visitImportsNoSoFar(imports, i, st) ==
    IF i > Len(imports) THEN st
    ELSE visitImportsNoSoFar(imports, i + 1, toFileDescriptorProtoSliceNoSoFar(imports[i], st))

RECURSIVE toFileDescriptorProtoSlice(_, _)
RECURSIVE visitImports(_, _, _)
\* st is the pair the Go function shares with its caller: the results slice and soFar.
toFileDescriptorProtoSlice(file, st) ==
    IF file.path \in st.soFar THEN st
    ELSE LET after == visitImports(Imports(file), 1,
                                   [st EXCEPT !.soFar = @ \cup {file.path}])
         IN  [after EXCEPT !.results = Append(@, ProtoFromFileDescriptor(file))]

\* The loop of lines 477-479 from import i on.
visitImports(imports, i, st) ==
    IF i > Len(imports) THEN st
    ELSE visitImports(imports, i + 1, toFileDescriptorProtoSlice(imports[i], st))

RECURSIVE visitFilesLastFirst(_, _)
\* A variant of the loop of lines 464-466 that starts from the last file.
visitFilesLastFirst(fs, st) ==
    IF fs = <<>> THEN st
    ELSE visitFilesLastFirst(SubSeq(fs, 1, Len(fs) - 1),
                             toFileDescriptorProtoSlice(fs[Len(fs)], st))

RECURSIVE visitFiles(_, _)
\* The loop of lines 464-466.
visitFiles(fs, st) ==
    IF fs = <<>> THEN st
    ELSE visitFiles(Tail(fs), toFileDescriptorProtoSlice(Head(fs), st))

fileDescriptorSetForFileDescriptors(fs) ==
    visitFiles(fs, [soFar |-> {}, results |-> <<>>]).results

RECURSIVE scanDependencies(_, _, _, _)
\* The loop of lines 426-430 from 0-based index i on.
scanDependencies(dependencyFilePaths, unusedDependencyFilePaths, i, indexes) ==
    IF i >= Len(dependencyFilePaths) THEN indexes
    ELSE scanDependencies(dependencyFilePaths, unusedDependencyFilePaths, i + 1,
                          IF dependencyFilePaths[i + 1] \in unusedDependencyFilePaths
                          THEN Append(indexes, i)
                          ELSE indexes)

\* A variant that records 1-based positions.
unusedDependencyIndexesOneBased(fileDescriptorProto, unusedDependencyFilePaths) ==
    [k \in DOMAIN scanDependencies(fileDescriptorProto.dependency, unusedDependencyFilePaths, 0, <<>>)
       |-> scanDependencies(fileDescriptorProto.dependency, unusedDependencyFilePaths, 0, <<>>)[k] + 1]

unusedDependencyIndexesForFilePathToUnusedDependencyFilePaths(fileDescriptorProto, unusedDependencyFilePaths) ==
    IF unusedDependencyFilePaths = {} THEN <<>>
    ELSE scanDependencies(fileDescriptorProto.dependency, unusedDependencyFilePaths, 0, <<>>)

\* A map lookup that yields the empty set for a missing key.
Lookup(byFile, key) == IF key \in DOMAIN byFile THEN byFile[key] ELSE {}

\* A variant of the IsImport field of line 409 that forgets the negation.
isImportNotNegated(isNotImport) == isNotImport

\* Line 409: IsImport: !isNotImport.
isImport(isNotImport) == ~isNotImport

\* Lines 399-413: one descriptor of the result.
protoFileDescriptor(fileDescriptorProto) ==
    [FileDescriptorProto |-> fileDescriptorProto,
     IsImport |-> isImport(fileDescriptorProto.name \in toSlashFilePathMap),
     IsSyntaxUnspecified |-> fileDescriptorProto.name \in syntaxUnspecifiedFilePaths,
     UnusedDependency |->
         unusedDependencyIndexesForFilePathToUnusedDependencyFilePaths(
             fileDescriptorProto,
             Lookup(filePathToUnusedDependencyFilePaths, fileDescriptorProto.name))]

\* descriptor.FileDescriptorsForProtoFileDescriptors (package descriptor): the
\* descriptors it wraps, in the order given, each exposing the payload and the
\* three annotations it was built from.
FileDescriptorsForProtoFileDescriptors(protoFileDescriptors) == protoFileDescriptors

\* compile, lines 397-414: the descriptors are ordered, annotated and returned.
Assemble ==
    /\ pc = "assemble"
    /\ LET fileDescriptorSet == fileDescriptorSetForFileDescriptors(files)
       IN  fileDescriptors' = FileDescriptorsForProtoFileDescriptors(
                                 [i \in DOMAIN fileDescriptorSet |->
                                    protoFileDescriptor(fileDescriptorSet[i])])
    /\ pc' = "returned"
    /\ UNCHANGED <<protoFileSpec, sources, diagnostics, dirPaths, filePaths,
                   toSlashFilePathMap, warningErrorsWithPos, files,
                   syntaxUnspecifiedFilePaths, filePathToUnusedDependencyFilePaths, err>>
    /\ UNCHANGED infoVars

Next == ToFileDescriptors \/ NormalizePaths \/ Compile \/ Classify \/ Assemble

\* --------------------------------------------------------------- info.Spec

\* net/url.Parse on the URL strings of the model: whether it fails, and the Host.
UrlStrings == {"", "https://buf.build/plugin", "docs/plugin.md", "%zz"}
UrlParseFails(urlString) == urlString = "%zz"
UrlHost(urlString) == IF urlString = "https://buf.build/plugin" THEN "buf.build" ELSE ""

\* spdx.LicenseForID on the license IDs of the model.
SpdxStrings == {"", "Apache-2.0", "not-a-license"}
LicenseForID(id) == id = "Apache-2.0"

TextStrings == {"", "text"}

ValidateSpecError(message) == Diag("error", message, NoPath, NoPath)
ErrTODO == Diag("error", "TODO", NoPath, NoPath)

validateSpecAbsoluteURL(urlString) ==
    IF UrlParseFails(urlString) THEN ValidateSpecError("invalid URL")
    ELSE IF UrlHost(urlString) = "" THEN ValidateSpecError("invalid URL: must be absolute")
    ELSE NoError

ValidateSpec(s) ==
    IF s.URL # "" /\ validateSpecAbsoluteURL(s.URL) # NoError
    THEN validateSpecAbsoluteURL(s.URL)
    ELSE IF s.SPDXLicenseID # "" /\ ~LicenseForID(s.SPDXLicenseID)
    THEN ValidateSpecError("invalid SPDXLicenseID")
    ELSE IF s.LicenseText # "" /\ s.LicenseURL # ""
    THEN ValidateSpecError("only one of LicenseText and LicenseURL can be set")
    ELSE IF s.LicenseURL # "" /\ validateSpecAbsoluteURL(s.LicenseURL) # NoError
    THEN validateSpecAbsoluteURL(s.LicenseURL)
    ELSE IF s.DocShort = "" /\ s.DocLong # ""
    THEN ValidateSpecError("DocShort is empty while DocLong is not empty")
    ELSE NoError

Specs == [URL : UrlStrings, SPDXLicenseID : SpdxStrings, LicenseText : TextStrings,
          LicenseURL : UrlStrings, DocShort : TextStrings, DocLong : TextStrings]

\* The nil Info (the only Info the function returns).
NilInfo == "nil"

InfoForSpec ==
    /\ infoPc = "InfoForSpec"
    /\ IF ValidateSpec(spec) # NoError
       THEN /\ info' = NilInfo
            /\ infoErr' = ValidateSpec(spec)
       ELSE /\ info' = NilInfo
            /\ infoErr' = ErrTODO
    /\ infoPc' = "returned"
    /\ UNCHANGED spec
    /\ UNCHANGED compileVars

NextInfo == InfoForSpec

\* ------------------------------------------------------------------ inputs

FileNameSet == Range(FileNames)

\* The files named before FileNames[k].
Earlier(k) == {FileNames[j] : j \in 1..(k - 1)}

Min(a, b) == IF a < b THEN a ELSE b

RECURSIVE SourcesUpTo(_, _)
\* The import root's contents over the first k files with at most `edges`
\* import statements: each file imports files named before it.
SourcesUpTo(k, edges) ==
    IF k = 0 THEN {<<>>}
    ELSE UNION {{(FileNames[k] :> s) @@ g : g \in SourcesUpTo(k - 1, edges - Len(s))} :
                  s \in SeqsUpTo(Earlier(k), Min(MaxDeps, edges))}

AllSources(edges) == SourcesUpTo(Len(FileNames), edges)

\* The clean spelling of a file's path, as a ProtoFileSpec and an import name it.
PathOf(name) == <<name>>

CleanPaths == {PathOf(n) : n \in FileNameSet}

\* Spellings a ProtoFileSpec may use: clean, "./name", one "sub/../name", and a
\* path that is nowhere.
SpelledPaths ==
    CleanPaths \cup {<<".", "/", n>> : n \in FileNameSet}
               \cup {<<"sub", "/", "..", "/", FileNames[1]>>, PathOf(AbsentName)}

RECURSIVE ReachableIn(_, _)
\* The names reachable from `names` through the import statements of src.
ReachableIn(src, names) ==
    LET next == names \cup UNION {Range(src[n]) : n \in names}
    IN  IF next = names THEN names ELSE ReachableIn(src, next)

\* What the compiler may report for the files reachable from one request.
MayReport(src, requested) ==
    LET reached == ReachableIn(src, requested \cap DOMAIN src)
    IN  IF requested \subseteq DOMAIN src
        THEN {WarnNoSyntax(PathOf(f)) : f \in reached}
             \cup UNION {{WarnUnusedImport(PathOf(f), PathOf(d)) : d \in Range(src[f])} :
                          f \in reached}
             \cup {WarnOther(PathOf(f)) : f \in requested}
             \cup {ErrUnresolved(PathOf(f)) : f \in reached}
        ELSE {}

InitCall ==
    /\ pc = "ToFileDescriptors"
    /\ dirPaths = <<>>
    /\ filePaths = <<>>
    /\ toSlashFilePathMap = {}
    /\ warningErrorsWithPos = <<>>
    /\ files = <<>>
    /\ syntaxUnspecifiedFilePaths = {}
    /\ filePathToUnusedDependencyFilePaths = <<>>
    /\ fileDescriptors = <<>>
    /\ err = NoError

InfoIdle ==
    /\ spec = [URL |-> "", SPDXLicenseID |-> "", LicenseText |-> "",
               LicenseURL |-> "", DocShort |-> "", DocLong |-> ""]
    /\ infoPc = "idle"
    /\ info = NilInfo
    /\ infoErr = NoError

\* The import graph varies; the requests are clean paths.
Init ==
    /\ sources \in AllSources(MaxEdges)
    /\ \E fp \in SeqsUpTo(CleanPaths, MaxFilePaths) :
           protoFileSpec = ProtoFileSpec(<<SourceDirSpelled>>, fp)
    /\ diagnostics = <<>>
    /\ InitCall
    /\ InfoIdle

\* The order of the requests varies.
InitRequests ==
    /\ sources \in AllSources(MaxSmallEdges)
    /\ \E fp \in SeqsUpTo(CleanPaths, MaxRequested) :
           protoFileSpec = ProtoFileSpec(<<SourceDirSpelled>>, fp)
    /\ diagnostics = <<>>
    /\ InitCall
    /\ InfoIdle

\* The spelling of the paths and the presence of the lists vary.
InitPaths ==
    /\ sources \in AllSources(MaxPathEdges)
    /\ \/ protoFileSpec = NilProtoFileSpec
       \/ \E dp \in {<<>>, <<SourceDirSpelled>>}, fp \in SeqsUpTo(SpelledPaths, MaxFilePaths) :
              protoFileSpec = ProtoFileSpec(dp, fp)
    /\ diagnostics = <<>>
    /\ InitCall
    /\ InfoIdle

\* What the compiler reports varies; one file is requested.
InitDiag ==
    /\ sources \in AllSources(MaxSmallEdges)
    /\ \E n \in FileNameSet \cup {AbsentName} :
          /\ protoFileSpec = ProtoFileSpec(<<SourceDirSpelled>>, <<PathOf(n)>>)
          /\ diagnostics \in SeqsUpTo(MayReport(sources, {n}), MaxDiags)
    /\ InitCall
    /\ InfoIdle

InitInfo ==
    /\ spec \in Specs
    /\ infoPc = "InfoForSpec"
    /\ info = NilInfo
    /\ infoErr = NoError
    /\ sources = <<>>
    /\ protoFileSpec = NilProtoFileSpec
    /\ diagnostics = <<>>
    /\ pc = "idle"
    /\ dirPaths = <<>>
    /\ filePaths = <<>>
    /\ toSlashFilePathMap = {}
    /\ warningErrorsWithPos = <<>>
    /\ files = <<>>
    /\ syntaxUnspecifiedFilePaths = {}
    /\ filePathToUnusedDependencyFilePaths = <<>>
    /\ fileDescriptors = <<>>
    /\ err = NoError

Spec == Init /\ [][Next]_vars
SpecRequests == InitRequests /\ [][Next]_vars
SpecPaths == InitPaths /\ [][Next]_vars
SpecDiag == InitDiag /\ [][Next]_vars
SpecInfo == InitInfo /\ [][NextInfo]_vars

\* ------------------------------------------------------------------ claims

\* The call returned descriptors: a ProtoFileSpec that is not nil, and no error.
Succeeded == pc = "returned" /\ ~protoFileSpec.isNil /\ err = NoError

ValidPreconditions ==
    ~protoFileSpec.isNil /\ Len(protoFileSpec.DirPaths) > 0 /\ Len(protoFileSpec.FilePaths) > 0

NameAt(i) == fileDescriptors[i].FileDescriptorProto.name
DependencyAt(i) == fileDescriptors[i].FileDescriptorProto.dependency
ReturnedNames == {NameAt(i) : i \in DOMAIN fileDescriptors}

\* The file a FilePaths entry asks for: its clean spelling.
Asked(p) == Clean(FromSlash(p))

\* The names of the source files the FilePaths entries ask for.
RequestedNames == {n \in FileNameSet : \E p \in Range(protoFileSpec.FilePaths) : Asked(p) = PathOf(n)}

\* The files reachable from the requested files through imports, themselves included.
ReachablePaths == {PathOf(n) : n \in ReachableIn(sources, RequestedNames)}

\* The position of a path in the returned sequence.
PositionOf(path) == CHOOSE i \in DOMAIN fileDescriptors : NameAt(i) = path

\* The first position of a requested name in FilePaths.
FirstRequest(n) ==
    CHOOSE i \in DOMAIN protoFileSpec.FilePaths :
        /\ Asked(protoFileSpec.FilePaths[i]) = PathOf(n)
        /\ \A j \in 1..(i - 1) : Asked(protoFileSpec.FilePaths[j]) # PathOf(n)

\* The names requested at or before position i of FilePaths.
RequestedUpTo(i) ==
    {n \in FileNameSet : \E j \in 1..i : Asked(protoFileSpec.FilePaths[j]) = PathOf(n)}

\* C1: in a successful compile every dependency a returned descriptor declares
\* is the name of a descriptor at an earlier position of the returned sequence.
C1_DependencyFirst ==
    Succeeded =>
        \A i \in DOMAIN fileDescriptors :
            \A k \in DOMAIN DependencyAt(i) :
                \E j \in 1..(i - 1) : NameAt(j) = DependencyAt(i)[k]

\* A diamond: the requested top imports two files that both import the leaf; the
\* leaf came out first and the top last.
C1_Witness ==
    /\ Succeeded
    /\ Len(fileDescriptors) = 4
    /\ Len(protoFileSpec.FilePaths) = 1
    /\ NameAt(1) = PathOf(FileNames[1])
    /\ DependencyAt(2) = <<PathOf(FileNames[1])>>
    /\ DependencyAt(3) = <<PathOf(FileNames[1])>>
    /\ Len(DependencyAt(4)) = 2
    /\ DependencyAt(4)[1] # DependencyAt(4)[2]

\* C2: in a successful compile the returned paths are exactly the files reachable
\* from the requested files, no path occurs twice, and the sequence is as long as
\* there are reachable files.
C2_ExactlyOnce ==
    Succeeded =>
        /\ ReturnedNames = ReachablePaths
        /\ \A i, j \in DOMAIN fileDescriptors : NameAt(i) = NameAt(j) => i = j
        /\ Len(fileDescriptors) = Cardinality(ReachablePaths)

\* The same file requested twice, a file that lists one import twice, and the
\* imported file returned once.
C2_Witness ==
    /\ Succeeded
    /\ Len(protoFileSpec.FilePaths) = 2
    /\ protoFileSpec.FilePaths[1] = protoFileSpec.FilePaths[2]
    /\ Len(fileDescriptors) = 2
    /\ Len(DependencyAt(2)) = 2
    /\ DependencyAt(2)[1] = DependencyAt(2)[2]
    /\ DependencyAt(2)[1] = NameAt(1)

\* C3 as stated: IsImport is false iff the descriptor's path is an element of
\* FilePaths as the caller wrote it.
C3_IsImportByFilePaths ==
    Succeeded =>
        \A i \in DOMAIN fileDescriptors :
            (~fileDescriptors[i].IsImport) <=> (NameAt(i) \in Range(protoFileSpec.FilePaths))

\* C3 amended: IsImport is false iff the descriptor's path is the cleaned,
\* slash-separated form of some element of FilePaths.
C3_IsImportByCleanFilePaths ==
    Succeeded =>
        \A i \in DOMAIN fileDescriptors :
            (~fileDescriptors[i].IsImport)
                <=> (\E p \in Range(protoFileSpec.FilePaths) : NameAt(i) = ToSlash(Asked(p)))

\* Two requests, the second written "./name" and imported by the first: both
\* descriptors are returned with IsImport false.
C3_Witness ==
    /\ Succeeded
    /\ Len(protoFileSpec.FilePaths) = 2
    /\ Len(fileDescriptors) = 2
    /\ protoFileSpec.FilePaths[2] # Asked(protoFileSpec.FilePaths[2])
    /\ NameAt(1) = Asked(protoFileSpec.FilePaths[2])
    /\ NameAt(1) \in Range(DependencyAt(2))
    /\ ~fileDescriptors[1].IsImport
    /\ ~fileDescriptors[2].IsImport

\* The positions (1-based) of a descriptor's dependency list that some
\* unused-import warning positioned in the descriptor's file names.
WarnedPositions(i) ==
    {k \in DOMAIN DependencyAt(i) :
        \E d \in Range(diagnostics) :
            /\ d.kind = "ErrorUnusedImport"
            /\ d.filename = NameAt(i)
            /\ d.unusedImport = DependencyAt(i)[k]}

C5_SyntaxUnspecified ==
    Succeeded =>
        \A i \in DOMAIN fileDescriptors :
            fileDescriptors[i].IsSyntaxUnspecified
                <=> (\E d \in Range(diagnostics) :
                        d.kind = "ErrNoSyntax" /\ d.filename = NameAt(i))

\* An import flagged by its syntax warning while the requested file, which has a
\* warning of another kind, is not.
C5_Witness ==
    /\ Succeeded
    /\ \E i, j \in DOMAIN fileDescriptors :
          /\ fileDescriptors[i].IsImport
          /\ fileDescriptors[i].IsSyntaxUnspecified
          /\ ~fileDescriptors[j].IsImport
          /\ ~fileDescriptors[j].IsSyntaxUnspecified
          /\ \E d \in Range(diagnostics) : d.kind # "ErrNoSyntax" /\ d.filename = NameAt(j)

\* An error-severity diagnostic was emitted: a requested path that resolves
\* nowhere, or an error the compiler reported.
UnresolvedRequests ==
    {Asked(p) : p \in {q \in Range(protoFileSpec.FilePaths) :
                         \A n \in DOMAIN sources : Asked(q) # PathOf(n)}}
ReportedErrors == {d \in Range(diagnostics) : IsError(d)}
ErrorEmitted == UnresolvedRequests # {} \/ ReportedErrors # {}

C7_ErrorsSurfacedVerbatim ==
    (pc = "returned" /\ ValidPreconditions /\ ErrorEmitted) =>
        err \in ReportedErrors \cup {ErrFailedToResolve(path) : path \in UnresolvedRequests}

\* C8: with an empty DirPaths or FilePaths the call is never past the validation,
\* and it returns a validation error, no descriptors, and has normalised,
\* resolved and compiled nothing.
C8_ValidationFailFast ==
    (~protoFileSpec.isNil /\ ~ValidPreconditions) =>
        /\ pc \in {"ToFileDescriptors", "returned"}
        /\ pc = "returned" => err \in {ErrNoDirPaths, ErrNoFilePaths}
        /\ fileDescriptors = <<>>
        /\ dirPaths = <<>> /\ filePaths = <<>> /\ toSlashFilePathMap = {}
        /\ files = <<>> /\ warningErrorsWithPos = <<>>

\* A ProtoFileSpec with an import root and no file: the FilePaths error.
C8_Witness ==
    /\ pc = "returned"
    /\ ~protoFileSpec.isNil
    /\ Len(protoFileSpec.DirPaths) > 0
    /\ Len(protoFileSpec.FilePaths) = 0
    /\ err = ErrNoFilePaths
    /\ fileDescriptors = <<>>

\* What C9 says ValidateSpec accepts.
AbsoluteWhenSet(urlString) ==
    urlString = "" \/ (~UrlParseFails(urlString) /\ UrlHost(urlString) # "")
Accepted(s) ==
    /\ AbsoluteWhenSet(s.URL)
    /\ AbsoluteWhenSet(s.LicenseURL)
    /\ (s.SPDXLicenseID = "" \/ LicenseForID(s.SPDXLicenseID))
    /\ ~(s.LicenseText # "" /\ s.LicenseURL # "")
    /\ (s.DocLong # "" => s.DocShort # "")

\* C9: InfoForSpec returns an Info and no error for a Spec ValidateSpec accepts,
\* and no Info and the validation error for a Spec it rejects.
C9_InfoForSpecReturnsInfo ==
    infoPc = "returned" =>
        IF Accepted(spec)
        THEN info # NilInfo /\ infoErr = NoError
        ELSE info = NilInfo /\ infoErr = ValidateSpec(spec)

\* C10 as stated: of two distinct requested files, the one requested first comes
\* first in the returned sequence unless it transitively imports the other.
C10_RequestOrderPreserved ==
    Succeeded =>
        \A a, b \in RequestedNames :
            (/\ a # b
             /\ FirstRequest(a) < FirstRequest(b)
             /\ b \notin ReachableIn(sources, {a}))
                => PositionOf(PathOf(a)) < PositionOf(PathOf(b))

\* C10 amended: ... unless it, or a file requested before it, transitively
\* imports the other.
C10_RequestOrderPreservedAmended ==
    Succeeded =>
        \A a, b \in RequestedNames :
            (/\ a # b
             /\ FirstRequest(a) < FirstRequest(b)
             /\ b \notin ReachableIn(sources, RequestedUpTo(FirstRequest(a))))
                => PositionOf(PathOf(a)) < PositionOf(PathOf(b))

\* Three distinct requests; the second imports nothing, the third is reached by
\* no earlier request, and the first has an import: the second precedes the third.
C10_Witness ==
    /\ Succeeded
    /\ Len(protoFileSpec.FilePaths) = 3
    /\ Cardinality(RequestedNames) = 3
    /\ \E a, b, c \in RequestedNames :
          /\ FirstRequest(c) = 1 /\ FirstRequest(a) = 2 /\ FirstRequest(b) = 3
          /\ sources[c] # <<>>
          /\ b \notin ReachableIn(sources, {c, a})
          /\ PositionOf(PathOf(a)) < PositionOf(PathOf(b))
====
